---- MODULE Spec2Model ----
(***************************************************************************)
(* Retrieval-augmented context builder of the tutor application            *)
(* (src/app.py): question classifier, chunker, relevance ranker, context   *)
(* assembler and the question handler of main.                             *)
(*                                                                         *)
(* Strings are sequences of atoms.  A question is a sequence of            *)
(* characters, because the classifier decides on substrings and on case.   *)
(* A document text is a sequence of words and single blanks, as            *)
(* cargar_documentos leaves it.  Prompts and answers are sequences of      *)
(* text segments (the pictographs of the literals are left out).  The      *)
(* tokenizer (tiktoken), the vectorizer (scikit-learn) and the completion  *)
(* service are libraries outside the repository: the model draws their     *)
(* results from bounded sets.                                              *)
(***************************************************************************)
EXTENDS Integers, Sequences, FiniteSets

VARIABLES
  directorio,         \* the PDF files of the working directory
  autenticado,        \* st.session_state.autenticado
  documentos,         \* st.session_state.documentos: <<archivo, texto>> pairs
  messages,           \* st.session_state.messages: [role, content] records
  prompt,             \* the question of the last pass of the handler
  entorno,            \* what the libraries answered during the last pass
  marco,              \* what construir_contexto_hibrido did in the last pass
  llamadas_llm,       \* calls of client.chat.completions.create in the last pass
  completado,         \* what the last of those calls returned or raised
  respuesta           \* the answer the last pass appended

vars == <<directorio, autenticado, documentos, messages, prompt, entorno, marco,
          llamadas_llm, completado, respuesta>>

\* ------------------------------------------------------------------ constants
MAX_CONTEXT_TOKENS == 15000
MAX_CHUNKS == 8
\* Bytes of the instruction template of the grounded prompt, the fragments
\* left out; a byte-pair encoding never yields more tokens than bytes.
PLANTILLA_BYTES == 348

\* ------------------------------------------------------------------- bounds
\* Words of a window.  The program sets 800 (src/app.py, line 31); the model
\* takes a window short enough to enumerate corpora of more than MAX_CHUNKS
\* windows, and the corpora below are sized in windows.
CHUNK_SIZE == 3
\* Messages the chat history may hold before the model stops taking questions.
MaxMensajes == 5

\* ------------------------------------------------------------ string helpers
Min(S) == CHOOSE x \in S : \A y \in S : x <= y
Max(S) == CHOOSE x \in S : \A y \in S : x >= y

Blancos == {" ", "\n"}

MAYUSCULAS == <<"A","B","C","D","E","F","G","H","I","J","K","L","M","N","Ñ","O","P",
                "Q","R","S","T","U","V","W","X","Y","Z","Á","É","Í","Ó","Ú">>
MINUSCULAS == <<"a","b","c","d","e","f","g","h","i","j","k","l","m","n","ñ","o","p",
                "q","r","s","t","u","v","w","x","y","z","á","é","í","ó","ú">>

\* The sequence f, with its elements evaluated once.
sec(f) == <<>> \o f

\* the lower-case letter of every upper-case letter
minuscula_de ==
  [c \in {MAYUSCULAS[k] : k \in 1..Len(MAYUSCULAS)} |->
     MINUSCULAS[CHOOSE k \in 1..Len(MAYUSCULAS) : MAYUSCULAS[k] = c]]

\* str.lower()
lower(s) ==
  sec([i \in 1..Len(s) |->
         IF s[i] \in DOMAIN minuscula_de THEN minuscula_de[s[i]] ELSE s[i]])

\* `sub in s`, and re.search(sub, s) for a pattern without metacharacters
contiene(s, sub) ==
  \E i \in 0..(Len(s) - Len(sub)) : SubSeq(s, i + 1, i + Len(sub)) = sub

\* str.strip()
recortar(s, llenos) == IF llenos = {} THEN <<>> ELSE SubSeq(s, Min(llenos), Max(llenos))

strip(s) == recortar(s, {i \in 1..Len(s) : s[i] \notin Blancos})

\* str.startswith()
startswith(s, pre) == Len(s) >= Len(pre) /\ SubSeq(s, 1, Len(pre)) = pre

\* str.split(): the maximal runs without blanks; a word is one atom here
split(texto) == SelectSeq(texto, LAMBDA c : c \notin Blancos)

\* " ".join(words)
join(words) ==
  sec([i \in 1..(IF Len(words) = 0 THEN 0 ELSE 2 * Len(words) - 1) |->
         IF i % 2 = 1 THEN words[(i + 1) \div 2] ELSE " "])

RECURSIVE concat(_)
concat(ss) == IF ss = <<>> THEN <<>> ELSE Head(ss) \o concat(Tail(ss))

RECURSIVE suma(_)
suma(ns) == IF ns = <<>> THEN 0 ELSE Head(ns) + suma(Tail(ns))

\* ---------------------------------------------------------------- classifier
GENERAL_PATTERNS ==
  << <<"q","u","é"," ","d","í","a"," ","e","s"," ","h","o","y">>,
     <<"f","e","c","h","a"," ","a","c","t","u","a","l">>,
     <<"c","u","á","n","d","o"," ","e","s"," ","h","o","y">>,
     <<"d","i","m","e"," ","l","a"," ","f","e","c","h","a">>,
     <<"q","u","i","é","n"," ","e","s"," ","e","l"," ","p","r","e","s","i","d","e","n","t","e">>,
     <<"p","r","e","s","i","d","e","n","t","e"," ","d","e">>,
     <<"c","a","p","i","t","a","l"," ","d","e">>,
     <<"c","u","á","l"," ","e","s"," ","l","a"," ","m","o","n","e","d","a">>,
     <<"m","o","n","e","d","a"," ","d","e">>,
     <<"d","e","f","i","n","e"," ","i","a">>,
     <<"d","e","f","i","n","e"," ","i","n","t","e","l","i","g","e","n","c","i","a"," ","a","r","t","i","f","i","c","i","a","l">>,
     <<"q","u","é"," ","e","s"," ","i","a">>,
     <<"q","u","é"," ","e","s"," ","i","n","t","e","l","i","g","e","n","c","i","a"," ","a","r","t","i","f","i","c","i","a","l">>,
     <<"q","u","é"," ","e","s"," ","u","n"," ","s","i","s","t","e","m","a">>,
     <<"q","u","é"," ","e","s"," ","u","n"," ","s","i","s","t","e","m","a"," ","d","e"," ","i","n","f","o","r","m","a","c","i","ó","n">>,
     <<"q","u","é"," ","e","s"," ","e","l"," ","i","n","t","e","r","n","e","t">>,
     <<"c","ó","m","o"," ","e","s","t","á"," ","e","l"," ","c","l","i","m","a">>,
     <<"t","e","m","p","e","r","a","t","u","r","a"," ","e","n">>,
     <<"q","u","i","é","n"," ","i","n","v","e","n","t","ó">>,
     <<"q","u","i","é","n"," ","f","u","e">>,
     <<"r","e","s","u","m","e","n"," ","d","e">>,
     <<"n","o","m","b","r","a">>,
     <<"l","i","s","t","a"," ","d","e">>,
     <<"e","j","e","m","p","l","o"," ","d","e">>,
     <<"c","u","á","l"," ","e","s"," ","l","a"," ","e","c","u","a","c","i","ó","n">>,
     <<"q","u","i","é","n"," ","g","a","n","ó">> >>

palabras_cultura ==
  << <<"c","a","p","i","t","a","l">>,
     <<"p","r","e","s","i","d","e","n","t","e">>,
     <<"c","l","i","m","a">>,
     <<"t","e","m","p","e","r","a","t","u","r","a">>,
     <<"m","o","n","e","d","a">>,
     <<"i","n","v","e","n","t","o","r">>,
     <<"f","e","c","h","a">> >>

irrelevantes ==
  << <<"p","a","r","t","i","d","o"," ","d","e"," ","f","ú","t","b","o","l">>,
     <<"g","o","l","e","s">>,
     <<"r","e","g","g","a","e","t","o","n">>,
     <<"f","a","r","a","n","d","u","l","a">>,
     <<"c","h","i","s","m","e">>,
     <<"m","e","m","e","s">>,
     <<"b","r","o","m","a">> >>

FRASES_FECHA ==
  << <<"q","u","é"," ","d","í","a"," ","e","s"," ","h","o","y">>,
     <<"f","e","c","h","a"," ","a","c","t","u","a","l">>,
     <<"c","u","á","n","d","o"," ","e","s"," ","h","o","y">>,
     <<"d","i","m","e"," ","l","a"," ","f","e","c","h","a">> >>

\* Some element of the sequence of literals occurs in s.
alguno_en(literales, s) == \E k \in 1..Len(literales) : contiene(s, literales[k])

es_pregunta_general(pregunta) ==
  LET p == lower(pregunta)
  IN  alguno_en(GENERAL_PATTERNS, p) \/ alguno_en(palabras_cultura, p)

\* Variant of es_pregunta_irrelevante that forgets pregunta.lower().
es_pregunta_irrelevante_sin_lower(pregunta) == alguno_en(irrelevantes, pregunta)

es_pregunta_irrelevante(pregunta) == alguno_en(irrelevantes, lower(pregunta))

\* ------------------------------------------------------------------- results
\* A call either returns a value or raises; str(e) is the message.
Retorna(v) == [exc |-> FALSE, valor |-> v, msg |-> <<>>]
Lanza(m) == [exc |-> TRUE, valor |-> <<>>, msg |-> m]

\* -------------------------------------------------------------------- loader
\* re.sub(r'\s+', ' ', texto).strip()
normalizar(texto) ==
  LET posiciones == sec([i \in 1..Len(texto) |-> i])
      primero_de_racha(i) == texto[i] \notin Blancos \/ i = 1 \/ texto[i - 1] \notin Blancos
      quedan == SelectSeq(posiciones, primero_de_racha)
  IN  strip(sec([k \in 1..Len(quedan) |->
                   IF texto[quedan[k]] \in Blancos THEN " " ELSE texto[quedan[k]]]))

\* sorted(...) of file names: the names of ORDEN that occur, ORDEN being
\* every name in ascending order
ordenar(nombres, ORDEN) == SelectSeq(ORDEN, LAMBDA f : f \in nombres)

\* cargar_documentos() in a directory dir of readable files
cargar_documentos(dir, ORDEN) ==
  LET pdf_files == ordenar({dir[i][1] : i \in 1..Len(dir)}, ORDEN)
      texto_de(f) == dir[CHOOSE i \in 1..Len(dir) : dir[i][1] = f][2]
  IN  sec([k \in 1..Len(pdf_files) |-> <<pdf_files[k], normalizar(texto_de(pdf_files[k]))>>])

\* ------------------------------------------------------------------- chunker
\* Variant of ventanas that drops a last window shorter than CHUNK_SIZE.
ventanas_sin_resto(n) == n \div CHUNK_SIZE

\* len(range(0, n, CHUNK_SIZE))
ventanas(n) == (n + CHUNK_SIZE - 1) \div CHUNK_SIZE

\* words[i:i+CHUNK_SIZE] for the k-th value of i
ventana(words, k) ==
  SubSeq(words, (k - 1) * CHUNK_SIZE + 1, Min({k * CHUNK_SIZE, Len(words)}))

\* the inner loop of seleccionar_chunks_relevantes over the words of a document
chunks_de_palabras(nombre, words) ==
  sec([k \in 1..ventanas(Len(words)) |-> <<join(ventana(words, k)), nombre>>])

\* the body of the outer loop for one document
chunks_de_documento(nombre, texto) == chunks_de_palabras(nombre, split(texto))

\* the outer loop: chunks of all documents, in the order of documentos
RECURSIVE trocear(_)
trocear(docs) ==
  IF docs = <<>> THEN <<>>
  ELSE chunks_de_documento(Head(docs)[1], Head(docs)[2]) \o trocear(Tail(docs))

\* -------------------------------------------------------------------- ranker
\* np.argsort(similitudes): positions in ascending order of value; equal
\* values are left in ascending position (the order of ties is the
\* library's choice: no property below reads it).
argsort(similitudes) ==
  LET n == Len(similitudes)
      antes(j, i) == similitudes[j] < similitudes[i]
                     \/ (similitudes[j] = similitudes[i] /\ j < i)
  IN  sec([k \in 1..n |->
             CHOOSE i \in 1..n : Cardinality({j \in 1..n : antes(j, i)}) = k - 1])

\* s[::-1]
invertir(s) == sec([k \in 1..Len(s) |-> s[Len(s) + 1 - k]])

\* Variant of indices_relevantes that forgets [::-1].
indices_sin_invertir(similitudes) ==
  SubSeq(argsort(similitudes), 1, Min({MAX_CHUNKS, Len(similitudes)}))

\* np.argsort(similitudes)[::-1][:MAX_CHUNKS]
indices_relevantes(similitudes) ==
  SubSeq(invertir(argsort(similitudes)), 1, Min({MAX_CHUNKS, Len(similitudes)}))

\* tfidf is what TfidfVectorizer().fit_transform and cosine_similarity give
\* for [pregunta] + chunks: the similarities, one per chunk, or an error.
\* [chunks[i] for i in indices]
elegir(chunks, indices) == sec([k \in 1..Len(indices) |-> chunks[indices[k]]])

\* Variant of seleccionar_de that ranks a corpus of exactly MAX_CHUNKS chunks.
seleccionar_de_estricto(chunks, pregunta, tfidf) ==
  IF Len(chunks) < MAX_CHUNKS THEN Retorna(chunks)
  ELSE IF tfidf.exc THEN Lanza(tfidf.msg)
  ELSE Retorna(elegir(chunks, indices_relevantes(tfidf.valor)))

\* seleccionar_chunks_relevantes once chunks is built
seleccionar_de(chunks, pregunta, tfidf) ==
  IF Len(chunks) <= MAX_CHUNKS THEN Retorna(chunks)
  ELSE IF tfidf.exc THEN Lanza(tfidf.msg)
  ELSE Retorna(elegir(chunks, indices_relevantes(tfidf.valor)))

seleccionar_chunks_relevantes(docs, pregunta, tfidf) ==
  IF docs = <<>> THEN Retorna(<<>>)
  ELSE seleccionar_de(trocear(docs), pregunta, tfidf)

\* ----------------------------------------------------------------- assembler
DENEGACION == <<"Solo puedo responder", " preguntas académicas o de cultura general.">>

POLITICA_GENERAL ==
  <<"\n", "Eres un profesor experto.",
    " Responde de forma precisa y clara, usando conocimiento general, no te limites a los PDFs.",
    "\n", "Si la pregunta es sobre fecha, clima, IA, presidentes, capitales, responde de manera directa.",
    "\n">>

POLITICA_SIN_MATERIAL ==
  <<"\n", "Eres un profesor experto en Ingeniería de Sistemas.",
    "\n", "No se encontró información relevante en los materiales proporcionados,",
    " pero responde usando tus conocimientos generales, en máximo 3 oraciones.",
    "\n">>

PLANTILLA_CABEZA ==
  <<"\n", "Eres un profesor experto en Ingeniería de Sistemas.",
    " Usa solo los fragmentos para responder, en máximo 3 oraciones.",
    "\n", "Si no hay información suficiente, di: 'No encontré en los materiales, pero te explico:'",
    " y da una respuesta general breve.",
    "\n", "Siempre cita el documento así: [Nombre.pdf]",
    "\n", "Fragmentos:", "\n">>

PLANTILLA_PIE == <<"\n">>

MESES == <<"January", "February", "March", "April", "May", "June", "July",
           "August", "September", "October", "November", "December">>

DIGITOS == <<"0", "1", "2", "3", "4", "5", "6", "7", "8", "9">>

\* the decimal digits of n, at least `ancho` of them
RECURSIVE cifras(_, _)
cifras(n, ancho) ==
  IF n < 10 /\ ancho <= 1 THEN <<DIGITOS[n + 1]>>
  ELSE Append(cifras(n \div 10, ancho - 1), DIGITOS[(n % 10) + 1])

\* datetime.strftime("%d de %B de %Y") of a date <<day, month, year>>
strftime(fecha) ==
  cifras(fecha[1], 2) \o <<" de ", MESES[fecha[2]], " de ">> \o cifras(fecha[3], 1)

\* f"[DOC: {nombre}]\n{chunk}\n---\n\n"
chunk_text(c) == <<"[DOC: ", c[2], "]", "\n">> \o c[1] \o <<"\n", "---", "\n", "\n">>

\* The budgeting loop over chunks_relevantes from position k on.  est holds
\* contexto and tokens_disponibles; incluidos records the positions appended.
RECURSIVE llenar(_, _, _, _)
\* Variant of paso_de_llenar that appends without looking at the budget.
paso_de_llenar_sin_limite(k, texto, chunk_tokens, est) ==
  [contexto |-> est.contexto \o texto,
   tokens_disponibles |-> est.tokens_disponibles - chunk_tokens,
   incluidos |-> Append(est.incluidos, k)]

\* Variant of paso_de_llenar that lets a chunk use the budget up.
paso_de_llenar_hasta_cero(k, texto, chunk_tokens, est) ==
  IF est.tokens_disponibles - chunk_tokens >= 0
  THEN [contexto |-> est.contexto \o texto,
        tokens_disponibles |-> est.tokens_disponibles - chunk_tokens,
        incluidos |-> Append(est.incluidos, k)]
  ELSE est

\* the body of the loop for the chunk at position k, texto being its
\* chunk_text and chunk_tokens the tokenizer's count of it
paso_de_llenar(k, texto, chunk_tokens, est) ==
  IF est.tokens_disponibles - chunk_tokens > 0
  THEN [contexto |-> est.contexto \o texto,
        tokens_disponibles |-> est.tokens_disponibles - chunk_tokens,
        incluidos |-> Append(est.incluidos, k)]
  ELSE est

llenar(relevantes, k, enc, est) ==
  IF k > Len(relevantes) THEN est
  ELSE llenar(relevantes, k + 1, enc,
              paso_de_llenar(k, chunk_text(relevantes[k]),
                             enc[chunk_text(relevantes[k])], est))

\* tokens_disponibles before the loop
presupuesto(tokens_pregunta) == MAX_CONTEXT_TOKENS - tokens_pregunta - 500

\* the else branch of construir_contexto_hibrido
ensamblar(relevantes, tokens_pregunta, enc) ==
  llenar(relevantes, 1, enc,
         [contexto |-> <<>>, tokens_disponibles |-> presupuesto(tokens_pregunta),
          incluidos |-> <<>>])

\* any(chunk.strip() != "" for chunk, _ in chunks_relevantes)
hay_chunks(relevantes) == \E k \in 1..Len(relevantes) : strip(relevantes[k][1]) # <<>>

\* What a call of construir_contexto_hibrido did: res is what it returned or
\* raised; ranker tells whether seleccionar_chunks_relevantes was called and
\* chunks_relevantes what it returned; ensamblado tells whether the budgeting
\* loop ran and ens how it ended.
Marco(res, ranker, relevantes, ensamblado, ens) ==
  [res |-> res, ranker |-> ranker, chunks_relevantes |-> relevantes,
   ensamblado |-> ensamblado, ens |-> ens]

SIN_ENSAMBLAR == [contexto |-> <<>>, tokens_disponibles |-> 0, incluidos |-> <<>>]

\* the return of the else branch: the template around contexto
instruccion(relevantes, ens) ==
  Marco(Retorna(PLANTILLA_CABEZA \o ens.contexto \o PLANTILLA_PIE),
        TRUE, relevantes, TRUE, ens)

\* construir_contexto_hibrido after the classifier (step 3 of the function)
contexto_de_documentos(sel, pregunta, ent) ==
  IF sel.exc THEN Marco(Lanza(sel.msg), TRUE, <<>>, FALSE, SIN_ENSAMBLAR)
  ELSE IF sel.valor = <<>> \/ ~hay_chunks(sel.valor)
  THEN Marco(Retorna(POLITICA_SIN_MATERIAL), TRUE, sel.valor, FALSE, SIN_ENSAMBLAR)
  ELSE instruccion(sel.valor, ensamblar(sel.valor, ent.tokens_pregunta, ent.enc))

\* the test for the date phrasings, made on the question as typed
es_consulta_fecha(pregunta) == alguno_en(FRASES_FECHA, pregunta)

\* Variant of construir_contexto_hibrido that looks for documents before it
\* gives the general policy.
construir_mirando_corpus(docs, pregunta, ent) ==
  IF es_pregunta_irrelevante(pregunta)
  THEN Marco(Retorna(DENEGACION), FALSE, <<>>, FALSE, SIN_ENSAMBLAR)
  ELSE IF es_pregunta_general(pregunta)
  THEN IF es_consulta_fecha(pregunta)
       THEN Marco(Retorna(<<"La fecha de hoy", " es ">> \o strftime(ent.hoy) \o <<".">>),
                  FALSE, <<>>, FALSE, SIN_ENSAMBLAR)
       ELSE Marco(Retorna(IF docs = <<>> THEN POLITICA_SIN_MATERIAL ELSE POLITICA_GENERAL),
                  FALSE, <<>>, FALSE, SIN_ENSAMBLAR)
  ELSE contexto_de_documentos(seleccionar_chunks_relevantes(docs, pregunta, ent.tfidf),
                              pregunta, ent)

\* ent holds what the libraries answer during the call: hoy (datetime.now()),
\* tfidf, tokens_pregunta and enc (the tokenizer's count of each chunk text).
construir_contexto_hibrido(docs, pregunta, ent) ==
  IF es_pregunta_irrelevante(pregunta)
  THEN Marco(Retorna(DENEGACION), FALSE, <<>>, FALSE, SIN_ENSAMBLAR)
  ELSE IF es_pregunta_general(pregunta)
  THEN IF es_consulta_fecha(pregunta)
       THEN Marco(Retorna(<<"La fecha de hoy", " es ">> \o strftime(ent.hoy) \o <<".">>),
                  FALSE, <<>>, FALSE, SIN_ENSAMBLAR)
       ELSE Marco(Retorna(POLITICA_GENERAL), FALSE, <<>>, FALSE, SIN_ENSAMBLAR)
  ELSE contexto_de_documentos(seleccionar_chunks_relevantes(docs, pregunta, ent.tfidf),
                              pregunta, ent)

\* ---------------------------------------------------------- question handler
LIMITE_EXCEDIDO ==
  <<"Límite de uso excedido. Por favor espera un minuto antes de hacer otra pregunta.">>

\* Variant of manejar_excepcion without the branch for "429".
manejar_excepcion_generica(msg) == <<"Error: ">> \o msg

\* the except clause of the handler
manejar_excepcion(msg) ==
  IF contiene(msg, <<"429">>) THEN LIMITE_EXCEDIDO ELSE <<"Error: ">> \o msg

\* The try block of the handler after construir_contexto_hibrido: llm is
\* what client.chat.completions.create does if it is called.
SIN_LLAMAR == Retorna(<<>>)

responder(construido, llm) ==
  IF construido.exc
  THEN [respuesta |-> manejar_excepcion(construido.msg), llamadas |-> 0,
        completado |-> SIN_LLAMAR]
  ELSE IF startswith(strip(construido.valor), <<"La fecha de hoy">>)
            \/ startswith(strip(construido.valor), <<"Solo puedo responder">>)
  THEN [respuesta |-> strip(construido.valor), llamadas |-> 0, completado |-> SIN_LLAMAR]
  ELSE IF llm.exc
  THEN [respuesta |-> manejar_excepcion(llm.msg), llamadas |-> 1, completado |-> llm]
  ELSE [respuesta |-> llm.valor, llamadas |-> 1, completado |-> llm]

Mensaje(role, content) == [role |-> role, content |-> content]

\* ------------------------------------------------------------------- inputs
PALABRAS == <<"uno", "dos", "tres", "cuatro", "cinco", "seis", "siete">>

\* The text fitz extracts from a file of n words: every word has a line
\* break before it and a blank after it.  d shifts the words, so that the
\* files differ.
texto_extraido(d, n) ==
  sec([i \in 1..(3 * n) |->
         IF i % 3 = 1 THEN "\n"
         ELSE IF i % 3 = 2 THEN PALABRAS[((((i + 1) \div 3) + d) % Len(PALABRAS)) + 1]
         ELSE " "])

ARCHIVOS == <<"a.pdf", "b.pdf", "c.pdf">>

\* Word counts of the files of the directories the model runs in: no file,
\* an empty text, less than a window, exactly one window, one word more,
\* MAX_CHUNKS chunks in all, one more, and three more.
LONGITUDES ==
  { <<>>, <<0>>, <<1>>, <<CHUNK_SIZE>>, <<CHUNK_SIZE + 1, 0>>,
    <<4 * CHUNK_SIZE, 4 * CHUNK_SIZE>>, <<4 * CHUNK_SIZE + 1, 4 * CHUNK_SIZE>>,
    <<CHUNK_SIZE, 5 * CHUNK_SIZE, 4 * CHUNK_SIZE + 2>> }

\* The PDF files of the working directory as os.listdir() gives them, here in
\* descending order of name: <<archivo, extracted text>> pairs.
DIRECTORIOS ==
  { sec([d \in 1..Len(l) |->
           <<ARCHIVOS[Len(l) + 1 - d], texto_extraido(d, l[Len(l) + 1 - d])>>]) :
    l \in LONGITUDES }

\* The questions typed: date phrasings in lower case and capitalized, a
\* general question, off-topic ones, and one about the materials.
Preguntas ==
  { <<"q","u","é"," ","d","í","a"," ","e","s"," ","h","o","y">>,
    <<"Q","u","é"," ","d","í","a"," ","e","s"," ","h","o","y">>,
    <<"d","i","m","e"," ","l","a"," ","f","e","c","h","a"," ","a","c","t","u","a","l">>,
    <<"c","u","á","n","d","o"," ","e","s"," ","h","o","y">>,
    <<"c","a","p","i","t","a","l"," ","d","e"," ","p","e","r","ú">>,
    <<"c","h","i","s","m","e">>,
    <<"G","O","L","E","S"," ","y"," ","f","e","c","h","a"," ","a","c","t","u","a","l">>,
    <<"q","u","é"," ","e","s"," ","u","n"," ","g","r","a","f","o">> }

FECHAS == { <<2, 11, 2026>>, <<24, 12, 2025>> }

\* len(encoder.encode(pregunta)): a short question, one that leaves a single
\* token of budget, and one longer than the whole context
TOKENS_PREGUNTA == {4, 14499, 15001}

\* Counts by position: MAX_CHUNKS of them make the budget of a short question
\* exactly; each alone makes it exactly; large and small ones alternate.
PATRONES_TOKENS(n) ==
  { sec([i \in 1..n |-> 1812]), sec([i \in 1..n |-> 14496]),
    sec([i \in 1..n |-> IF i % 2 = 1 THEN 7000 ELSE 1000]) }

\* len(encoder.encode(t)) for the formatted chunks of docs: a function of the
\* text, patron giving the count of the chunk at each position.
codificador_de(textos, patron) ==
  [t \in {textos[i] : i \in 1..Len(textos)} |->
     patron[CHOOSE i \in 1..Len(textos) : textos[i] = t]]

textos_de(chunks) == sec([i \in 1..Len(chunks) |-> chunk_text(chunks[i])])

codificador(docs, patron) == codificador_de(textos_de(trocear(docs)), patron)

\* Similarities of n chunks (in hundredths): all equal, or scattered; or the
\* vectorizer's error.
RESULTADOS_TFIDF(n) ==
  { Retorna(sec([i \in 1..n |-> 0])), Retorna(sec([i \in 1..n |-> ((3 * i) % 5) * 20])),
    Lanza(<<"empty vocabulary; perhaps the documents only contain stop words">>) }

\* What the vectorizer would answer for n chunks if it were asked.
TFIDF_POSIBLES(n) ==
  IF n > MAX_CHUNKS THEN RESULTADOS_TFIDF(n)
  ELSE { Retorna(sec([i \in 1..n |-> 0])),
         Lanza(<<"empty vocabulary; perhaps the documents only contain stop words">>) }

RESULTADOS_LLM ==
  { Retorna(<<"(respuesta del modelo)">>),
    Lanza(<<"Error code: ", "429", " - rate limit reached">>),
    Lanza(<<"Connection error.">>) }

\* What the environment answers during a pass: hoy (datetime.now()), tfidf
\* (the vectorizer), tokens_pregunta and tokens_chunks (the tokenizer).
Entorno(hoy, tfidf, tokens_pregunta, tokens_chunks) ==
  [hoy |-> hoy, tfidf |-> tfidf, tokens_pregunta |-> tokens_pregunta,
   tokens_chunks |-> tokens_chunks]

ENTORNO_NULO == Entorno(<<1, 1, 1970>>, Retorna(<<>>), 0, <<>>)

\* The environments a pass with docs and pregunta may meet; the answers the
\* pass cannot ask for are left at one value.
Entornos_de(n, pregunta) ==
  IF es_pregunta_irrelevante(pregunta)
  THEN {Entorno(ENTORNO_NULO.hoy, Retorna(<<>>), 0, sec([i \in 1..n |-> 1812]))}
  ELSE IF es_pregunta_general(pregunta)
  THEN {Entorno(f, Retorna(<<>>), 0, sec([i \in 1..n |-> 1812])) : f \in FECHAS}
  ELSE {Entorno(ENTORNO_NULO.hoy, t, q, p) :
          t \in TFIDF_POSIBLES(n), q \in TOKENS_PREGUNTA, p \in PATRONES_TOKENS(n)}

Entornos(docs, pregunta) == Entornos_de(Len(trocear(docs)), pregunta)

\* The libraries as construir_contexto_hibrido calls them in environment ent.
bibliotecas(docs, ent) ==
  [hoy |-> ent.hoy, tfidf |-> ent.tfidf, tokens_pregunta |-> ent.tokens_pregunta,
   enc |-> codificador(docs, ent.tokens_chunks)]

\* ------------------------------------------------------------ state machine
SALUDO_INICIAL == <<"¡Hola! Valida tu código para comenzar">>
SALUDO_CARGANDO == <<"Hola ", "(nombre)", ", estoy cargando los materiales académicos...">>
MATERIALES_CARGADOS ==
  <<"Materiales cargados. ¿En qué tema de ingeniería de sistemas necesitas ayuda?">>
SALUDO_LIMPIO == <<"Hola ", "(nombre)", ", ¿en qué tema de sistemas necesitas ayuda?">>

MARCO_NULO == Marco(Retorna(<<>>), FALSE, <<>>, FALSE, SIN_ENSAMBLAR)

\* No question is being handled: the locals of the handler do not exist.
SinPregunta ==
  /\ prompt = <<>>
  /\ entorno = ENTORNO_NULO
  /\ marco = MARCO_NULO
  /\ llamadas_llm = 0
  /\ completado = SIN_LLAMAR
  /\ respuesta = <<>>

\* A run of the script that handles no question leaves none of its locals.
OlvidarPregunta ==
  /\ prompt' = <<>>
  /\ entorno' = ENTORNO_NULO
  /\ marco' = MARCO_NULO
  /\ llamadas_llm' = 0
  /\ completado' = SIN_LLAMAR
  /\ respuesta' = <<>>

Init ==
  /\ directorio \in DIRECTORIOS
  /\ autenticado = FALSE
  /\ documentos = <<>>
  /\ messages = <<Mensaje("assistant", SALUDO_INICIAL)>>
  /\ SinPregunta

\* "Validar Identidad" with a code validar_estudiante accepts
Validar ==
  /\ ~autenticado
  /\ autenticado' = TRUE
  /\ documentos' = cargar_documentos(directorio, ARCHIVOS)
  /\ messages' = <<Mensaje("assistant", SALUDO_CARGANDO),
                   Mensaje("assistant", MATERIALES_CARGADOS)>>
  /\ OlvidarPregunta
  /\ UNCHANGED directorio

\* "Limpiar Chat"
LimpiarChat ==
  /\ autenticado
  /\ messages' = <<Mensaje("assistant", SALUDO_LIMPIO)>>
  /\ OlvidarPregunta
  /\ UNCHANGED <<directorio, autenticado, documentos>>

\* "Cambiar Usuario"
CambiarUsuario ==
  /\ autenticado
  /\ autenticado' = FALSE
  /\ OlvidarPregunta
  /\ UNCHANGED <<directorio, documentos, messages>>

\* The end of the handler: r is the answer and the calls it took.
Anotar(p, ent, m, r) ==
  /\ prompt' = p
  /\ entorno' = ent
  /\ marco' = m
  /\ llamadas_llm' = r.llamadas
  /\ completado' = r.completado
  /\ respuesta' = r.respuesta
  /\ messages' = Append(Append(messages, Mensaje("user", p)),
                        Mensaje("assistant", r.respuesta))

\* The handler from the return of construir_contexto_hibrido on, m being
\* what that call did.
Atender(p, ent, m) == \E llm \in RESULTADOS_LLM : Anotar(p, ent, m, responder(m.res, llm))

\* A question typed into st.chat_input: the whole handler
Preguntar ==
  /\ autenticado
  /\ Len(messages) + 2 <= MaxMensajes
  /\ \E p \in Preguntas : \E ent \in Entornos(documentos, p) :
       Atender(p, ent,
               construir_contexto_hibrido(documentos, p, bibliotecas(documentos, ent)))
  /\ UNCHANGED <<directorio, autenticado, documentos>>

Next == Validar \/ LimpiarChat \/ CambiarUsuario \/ Preguntar

Spec == Init /\ [][Next]_vars

\* ---------------------------------------------------------------- properties
\* A pass of the question handler has run and its locals are in the state.
HuboPregunta == prompt # <<>>

\* The libraries as the last pass met them.
entorno_enc == codificador(documentos, entorno.tokens_chunks)

\* The label of the question as the design describes the classifier.
tiene_palabra_vetada(q) ==
  \E k \in 1..Len(irrelevantes) : contiene(lower(q), irrelevantes[k])

tiene_patron_general(q) ==
  \/ \E k \in 1..Len(GENERAL_PATTERNS) : contiene(lower(q), GENERAL_PATTERNS[k])
  \/ \E k \in 1..Len(palabras_cultura) : contiene(lower(q), palabras_cultura[k])

tiene_frase_de_fecha(q) ==
  \E k \in 1..Len(FRASES_FECHA) : contiene(lower(q), FRASES_FECHA[k])

Etiqueta(q) ==
  IF tiene_palabra_vetada(q) THEN "Irrelevant"
  ELSE IF tiene_patron_general(q) THEN "GeneralKnowledge"
  ELSE "DocumentGrounded"

RESPUESTA_FECHA(hoy) == <<"La fecha de hoy", " es ">> \o strftime(hoy) \o <<".">>

\* The fragments section of a grounded instruction, and its formatted chunks:
\* each begins at a "[DOC: " segment.
seccion_fragmentos(instr) ==
  SubSeq(instr, Len(PLANTILLA_CABEZA) + 1, Len(instr) - Len(PLANTILLA_PIE))

cortar(s, inicios) ==
  sec([k \in 1..Len(inicios) |->
         SubSeq(s, inicios[k],
                IF k < Len(inicios) THEN inicios[k + 1] - 1 ELSE Len(s))])

fragmentos(contexto) ==
  cortar(contexto,
         SelectSeq(sec([i \in 1..Len(contexto) |-> i]), LAMBDA i : contexto[i] = "[DOC: "))

\* The last pass returned the grounded template.
EsFundamentada ==
  /\ HuboPregunta /\ ~marco.res.exc
  /\ startswith(marco.res.valor, PLANTILLA_CABEZA)

fragmentos_puestos == fragmentos(seccion_fragmentos(marco.res.valor))

tokens_de(textos, enc) == suma(sec([k \in 1..Len(textos) |-> enc[textos[k]]]))

\* C1 (as claimed): whenever no chunk survives budgeting - the ranker returns
\* no chunk, or every chunk it returns counts at least as many tokens as the
\* budget MAX_CONTEXT_TOKENS - query tokens - 500 - the instruction returned
\* is the general-knowledge fallback policy, never the grounded template.
C1_SinChunksDaPoliticaDeRespaldo ==
  (/\ HuboPregunta /\ marco.ranker /\ ~marco.res.exc
   /\ \A k \in 1..Len(marco.chunks_relevantes) :
        entorno_enc[chunk_text(marco.chunks_relevantes[k])]
          >= presupuesto(entorno.tokens_pregunta))
  => marco.res.valor = POLITICA_SIN_MATERIAL

\* The template and chunks of tokens_chunks tokens fit in the context.
CabeConPlantilla(tokens_chunks) ==
  \A tokens_plantilla \in 1..PLANTILLA_BYTES :
    tokens_plantilla + tokens_chunks <= MAX_CONTEXT_TOKENS

\* C2: on the document-grounded path the instruction returned counts, template
\* and appended chunks together, at most MAX_CONTEXT_TOKENS tokens, whatever
\* the tokenizer counts for the template (at most its bytes), the question
\* and the chunks.
C2_InstruccionDentroDelLimite ==
  EsFundamentada => CabeConPlantilla(tokens_de(fragmentos_puestos, entorno_enc))

C2_Testigo ==
  /\ EsFundamentada
  /\ Len(fragmentos_puestos) >= 2
  /\ Len(fragmentos_puestos) < Len(marco.chunks_relevantes)

\* C3 (as claimed): a question that holds a date phrasing, in any case, and no
\* off-topic keyword gets the computed answer "La fecha de hoy es <date>.",
\* without the ranker and without a call of the completion service.
C3_FraseDeFechaDaLaFecha ==
  (HuboPregunta /\ ~tiene_palabra_vetada(prompt) /\ tiene_frase_de_fecha(prompt))
  => /\ marco.res = Retorna(RESPUESTA_FECHA(entorno.hoy))
     /\ ~marco.ranker
     /\ llamadas_llm = 0
     /\ respuesta = RESPUESTA_FECHA(entorno.hoy)

\* C4: a question that holds an off-topic keyword, in any case, gets exactly
\* the deny string, whatever else it matches; neither the ranker nor the
\* assembler runs and the completion service is not called.
C4_VetadaDaDenegacion ==
  (HuboPregunta /\ tiene_palabra_vetada(prompt))
  => /\ marco.res = Retorna(DENEGACION)
     /\ ~marco.ranker /\ ~marco.ensamblado
     /\ llamadas_llm = 0
     /\ respuesta = DENEGACION

C4_Testigo ==
  /\ HuboPregunta
  /\ tiene_palabra_vetada(prompt) /\ ~contiene(prompt, <<"g","o","l","e","s">>)
  /\ tiene_frase_de_fecha(prompt)
  /\ respuesta = DENEGACION

\* With the documents docs, and whatever the libraries answer about them on
\* the same day, the last question gets the output it got.
MismaSalidaCon(docs) ==
  \A ent \in Entornos(docs, prompt) :
    ent.hoy = entorno.hoy
    => construir_contexto_hibrido(docs, prompt, bibliotecas(docs, ent)).res = marco.res

\* C5: a question labelled Irrelevant or GeneralKnowledge ends in the deny
\* policy, the computed date or the general policy without chunking, ranking
\* or assembly, and its output is the same for every document set (and
\* whatever the libraries would answer about those documents).
C5_SalidaNoDependeDelCorpus ==
  (HuboPregunta /\ Etiqueta(prompt) # "DocumentGrounded")
  => /\ ~marco.ranker /\ ~marco.ensamblado /\ ~marco.res.exc
     /\ Etiqueta(prompt) = "Irrelevant" => marco.res.valor = DENEGACION
     /\ Etiqueta(prompt) = "GeneralKnowledge"
          => marco.res.valor \in {RESPUESTA_FECHA(entorno.hoy), POLITICA_GENERAL}
     /\ \A dir \in DIRECTORIOS : MismaSalidaCon(cargar_documentos(dir, ARCHIVOS))

C5_Testigo ==
  /\ HuboPregunta /\ Etiqueta(prompt) = "GeneralKnowledge"
  /\ marco.res.valor = POLITICA_GENERAL
  /\ Len(trocear(documentos)) > MAX_CHUNKS

\* The position in the chunk list of every chunk the ranker returned.
posiciones_de(relevantes, chunks) ==
  sec([k \in 1..Len(relevantes) |->
         CHOOSE i \in 1..Len(chunks) : chunks[i] = relevantes[k]])

EstaClasificado(relevantes, chunks, similitudes) ==
  /\ Len(relevantes) = MAX_CHUNKS
  /\ \A k \in 1..Len(relevantes) : \E i \in 1..Len(chunks) : chunks[i] = relevantes[k]
  /\ \A k, l \in 1..Len(relevantes) : k # l => relevantes[k] # relevantes[l]
  /\ \A k \in 1..(Len(relevantes) - 1) :
       similitudes[posiciones_de(relevantes, chunks)[k]]
         >= similitudes[posiciones_de(relevantes, chunks)[k + 1]]
  /\ \A i \in 1..Len(chunks) :
       (\A k \in 1..Len(relevantes) : relevantes[k] # chunks[i])
       => \A k \in 1..Len(relevantes) :
            similitudes[i] <= similitudes[posiciones_de(relevantes, chunks)[k]]

\* C6: with more than MAX_CHUNKS chunks, seleccionar_chunks_relevantes returns
\* exactly MAX_CHUNKS distinct chunks, no omitted chunk scores strictly
\* higher than a returned one, and the scores do not increase along the
\* returned sequence.
C6_DevuelveLosMejores ==
  (/\ HuboPregunta /\ marco.ranker /\ ~marco.res.exc
   /\ Len(trocear(documentos)) > MAX_CHUNKS)
  => EstaClasificado(marco.chunks_relevantes, trocear(documentos), entorno.tfidf.valor)

C6_Testigo ==
  /\ HuboPregunta /\ marco.ranker /\ ~marco.res.exc
  /\ Len(trocear(documentos)) > MAX_CHUNKS + 1
  /\ \E i, j \in 1..Len(entorno.tfidf.valor) :
       entorno.tfidf.valor[i] < entorno.tfidf.valor[j]

\* the words of the chunks tagged nombre, in the order of the chunks
palabras_de_chunks(chunks, nombre) ==
  concat(sec([k \in 1..Len(chunks) |->
                IF chunks[k][2] = nombre THEN split(chunks[k][1]) ELSE <<>>]))

\* the position in docs of the document a chunk is tagged with
documento_de(docs, c) == CHOOSE d \in 1..Len(docs) : docs[d][1] = c[2]

TroceoFiel(docs, chunks) ==
  /\ \A d \in 1..Len(docs) : palabras_de_chunks(chunks, docs[d][1]) = split(docs[d][2])
  /\ \A k \in 1..Len(chunks) :
       /\ \E d \in 1..Len(docs) : docs[d][1] = chunks[k][2]
       /\ Len(split(chunks[k][1])) >= 1
       /\ Len(split(chunks[k][1])) <= CHUNK_SIZE
       /\ (k < Len(chunks) /\ chunks[k + 1][2] = chunks[k][2])
            => Len(split(chunks[k][1])) = CHUNK_SIZE
       /\ k < Len(chunks)
            => documento_de(docs, chunks[k]) <= documento_de(docs, chunks[k + 1])

\* C7: the chunks of a document, concatenated in order, give back its
\* whitespace-split words; a chunk holds at most CHUNK_SIZE words and every
\* chunk but the last of its document exactly CHUNK_SIZE; every chunk is
\* tagged with its document and the chunks come document by document in load
\* order.
C7_TroceoSinPerdida ==
  /\ TroceoFiel(documentos, trocear(documentos))
  /\ (HuboPregunta /\ marco.ranker /\ ~marco.res.exc
      /\ Len(trocear(documentos)) <= MAX_CHUNKS)
     => TroceoFiel(documentos, marco.chunks_relevantes)

C7_Testigo ==
  /\ HuboPregunta /\ marco.ranker
  /\ Len(documentos) = 2
  /\ Len(marco.chunks_relevantes) = MAX_CHUNKS
  /\ marco.chunks_relevantes = trocear(documentos)

\* C8: an assembled context holds at most MAX_CHUNKS chunks; they are chunks
\* of the ranked list, in its order, each position at most once; every
\* append left tokens_disponibles above zero, so the appended chunks count
\* strictly less than MAX_CONTEXT_TOKENS - query tokens - 500 together.
C8_EnsambladoDentroDelPresupuesto ==
  EsFundamentada =>
    /\ marco.ensamblado
    /\ seccion_fragmentos(marco.res.valor) = marco.ens.contexto
    /\ Len(fragmentos_puestos) <= MAX_CHUNKS
    /\ Len(fragmentos_puestos) = Len(marco.ens.incluidos)
    /\ \A k \in 1..Len(marco.ens.incluidos) :
         /\ marco.ens.incluidos[k] \in 1..Len(marco.chunks_relevantes)
         /\ k > 1 => marco.ens.incluidos[k - 1] < marco.ens.incluidos[k]
         /\ fragmentos_puestos[k] = chunk_text(marco.chunks_relevantes[marco.ens.incluidos[k]])
         /\ tokens_de(SubSeq(fragmentos_puestos, 1, k), entorno_enc)
              < presupuesto(entorno.tokens_pregunta)
    /\ marco.ens.tokens_disponibles
         = presupuesto(entorno.tokens_pregunta) - tokens_de(fragmentos_puestos, entorno_enc)
    /\ Len(fragmentos_puestos) > 0 => marco.ens.tokens_disponibles > 0

C8_Testigo ==
  /\ EsFundamentada
  /\ Len(trocear(documentos)) > MAX_CHUNKS
  /\ Len(fragmentos_puestos) >= 3
  /\ \E k \in 1..Len(marco.ens.incluidos) : marco.ens.incluidos[k] # k

\* the number of positions of s that hold x
veces(s, x) == Cardinality({k \in 1..Len(s) : s[k] = x})

\* C9: with documents and at most MAX_CHUNKS chunks, the ranker returns every
\* chunk, unchanged and exactly as often as the chunker made it, whatever the
\* question, and without asking the vectorizer.
C9_DevuelveTodos ==
  (/\ HuboPregunta /\ marco.ranker
   /\ documentos # <<>> /\ Len(trocear(documentos)) <= MAX_CHUNKS)
  => /\ ~marco.res.exc
     /\ Len(marco.chunks_relevantes) = Len(trocear(documentos))
     /\ \A k \in 1..Len(trocear(documentos)) :
          veces(marco.chunks_relevantes, trocear(documentos)[k])
            = veces(trocear(documentos), trocear(documentos)[k])

C9_Testigo ==
  /\ HuboPregunta /\ marco.ranker
  /\ Len(trocear(documentos)) = MAX_CHUNKS
  /\ entorno.tfidf.exc
  /\ Len(marco.chunks_relevantes) = MAX_CHUNKS

\* the chat history is greetings of the assistant, then pairs of one user
\* message and one assistant message
HistorialEnPares ==
  \E n \in {1, 2} :
    /\ Len(messages) >= n /\ (Len(messages) - n) % 2 = 0
    /\ \A i \in 1..Len(messages) :
         messages[i].role = (IF i <= n \/ (i - n) % 2 = 0 THEN "assistant" ELSE "user")

\* C10: a failure while the prompt is built or the completion service is
\* called ends in an answer: the retry-later message when its text holds
\* "429", the generic error message otherwise; the service is called at most
\* once; and every question leaves one user message followed by one assistant
\* message in the history.
C10_FallosAtrapadosYUnPar ==
  /\ HistorialEnPares
  /\ HuboPregunta =>
       /\ Len(messages) >= 3
       /\ messages[Len(messages) - 1] = Mensaje("user", prompt)
       /\ messages[Len(messages)] = Mensaje("assistant", respuesta)
       /\ llamadas_llm \in {0, 1}
       /\ marco.res.exc =>
            /\ llamadas_llm = 0
            /\ respuesta = (IF \E i \in 1..Len(marco.res.msg) : marco.res.msg[i] = "429"
                            THEN LIMITE_EXCEDIDO ELSE <<"Error: ">> \o marco.res.msg)
       /\ (llamadas_llm = 1 /\ completado.exc) =>
            respuesta = (IF \E i \in 1..Len(completado.msg) : completado.msg[i] = "429"
                         THEN LIMITE_EXCEDIDO ELSE <<"Error: ">> \o completado.msg)
       /\ (llamadas_llm = 1 /\ ~completado.exc) => respuesta = completado.valor

C10_Testigo ==
  /\ HuboPregunta
  /\ Len(messages) = 5
  /\ llamadas_llm = 1 /\ completado.exc /\ respuesta = LIMITE_EXCEDIDO
  /\ messages[3].content # LIMITE_EXCEDIDO

====
